---- MODULE Spec2Model ----
(***************************************************************************)
(* Model of src/app.py: the VegaNeuroLens scoring engine (calculate_eri)   *)
(* and the synthetic signal generator (generate_signals).                  *)
(*                                                                         *)
(* Number representation                                                   *)
(*   fs, frequencies : integers in 1/FsScale Hz (173.61 Hz = 17361).       *)
(*   durations       : integers in 1/DurScale s.                           *)
(*   PSD powers      : integers in units of 1e-9, so that the zero-guard   *)
(*                     constant 1e-9 is Epsilon = 1 unit.                  *)
(*   frequency bins  : bin k of welch() is k*fs/nperseg; f holds the       *)
(*                     numerators k*fs, the denominator being nperseg.     *)
(*   energies        : np.trapz() results multiplied by EScale(n) =        *)
(*                     2*FsScale*nperseg, which makes them integers.       *)
(*   ratio           : float64 quotient kept in Q15 fixed point (value*Q). *)
(*   eri_score       : floor(score * ScoreScale) of the float64 score, so  *)
(*                     100.0 is 10000 and any float below 100.0 is at most *)
(*                     9999.                                               *)
(***************************************************************************)
EXTENDS Integers, Sequences, FiniteSets, TLC

VARIABLES fs, call, gen

vars == <<fs, call, gen>>

-----------------------------------------------------------------------------
(* Bounds of the model *)

MaxLen == 12
MaxPow == 1
ConcLen == 4
MonoSpan == 2

-----------------------------------------------------------------------------
(* Units and program constants *)

FsScale == 100
DurScale == 100
ScoreScale == 100
Q == 2^15
Ln2Q == 22713
NaN == 0 - 1
RatioCap == 64 * Q

DefaultFs == 17361
DefaultDuration == 10
NpersegCap == 256
BandILow == 4
BandIHigh == 13
BandELow == 30
BandEHigh == 80
Epsilon == 1
SigmoidSteep == 2
CenterQ == 26214
ScoreMax == 100

Min(a, b) == IF a <= b THEN a ELSE b
Max(a, b) == IF a >= b THEN a ELSE b

Calls == {1, 2}

\* Sampling rates handed to the constructor / the generator (1/100 Hz):
\* -20, 0, 16, 26, 72, 160 Hz and the default 173.61 Hz.
FsValues == {0 - 2000, 0, 1600, 2600, 7200, 16000, DefaultFs}

\* Durations handed to the generator (1/100 s): -10, -0.05, 0, 0.05, 0.1, 1, 10 s.
Durations == {0 - 1000, 0 - 5, 0, 5, 10, 100, DefaultDuration * DurScale}

-----------------------------------------------------------------------------
(* welch(signal, fs=self.fs, nperseg=min(len(signal), 256))  -- line 26 *)

Nperseg(n) == Min(n, NpersegCap)

\* Number of one-sided frequency bins welch() returns: nperseg//2 + 1,
\* and none for an empty input.
NBins(n) == IF n = 0 THEN 0 ELSE (Nperseg(n) \div 2) + 1

\* A signal is its length together with the power the estimator measures in
\* each of its bins (the samples themselves are not needed further).
ShortSignals ==
  UNION { {[len |-> n, pw |-> p] : p \in [1..NBins(n) -> 0..MaxPow]} : n \in 0..MaxLen }

\* The generator's default length int(10 * 173.61) = 1736 > 256 samples.
LongLen == (DefaultDuration * DefaultFs) \div FsScale

\* Bin of a tone of hz Hz in a 256-sample segment at the default rate.
ToneBin(hz) == (hz * FsScale * NpersegCap + DefaultFs \div 2) \div DefaultFs

LongSignals ==
  { [len |-> LongLen,
     pw  |-> [i \in 1..NBins(LongLen) |-> IF i - 1 = ToneBin(hz) THEN p ELSE q]] :
    hz \in {3, 10, 35}, p \in 0..MaxPow, q \in 0..1 }

Signals == ShortSignals \cup LongSignals

ConcSignals ==
  { s \in ShortSignals : s.len \in {0, ConcLen} /\ \A i \in DOMAIN s.pw : s.pw[i] \in {0, 1} }

\* Frequencies k * fs / nperseg, k = 0 .. nperseg//2, as numerators k * fs.
WelchFreqs(fsC, n) == [i \in 1..NBins(n) |-> (i - 1) * fsC]

\* Power per bin; the density scaling 1/(fs * sum(win^2)) takes the sign of fs.
WelchPxx(fsC, sig) ==
  [i \in 1..NBins(sig.len) |-> IF fsC >= 0 THEN sig.pw[i] ELSE 0 - sig.pw[i]]

\* The library call is the only place calculate_eri can fail.  For fs = 0
\* and a non-empty signal it divides by fs; for an empty signal or fs < 0 it
\* either returns (empty arrays, resp. non-positive frequencies) or raises
\* ValueError, depending on the library version.
WelchMayRaise(fsC, n) == fsC <= 0 \/ n = 0
WelchMayReturn(fsC, n) == n = 0 \/ fsC # 0
WelchError(fsC, n) == IF fsC = 0 /\ n > 0 THEN "ZeroDivisionError" ELSE "ValueError"

-----------------------------------------------------------------------------
(* Band selection and integration  -- lines 32-36 *)

InBandExclusive(fnum, lo, hi, n) ==
  /\ fnum > lo * FsScale * Nperseg(n)
  /\ fnum < hi * FsScale * Nperseg(n)

\* np.logical_and(f >= lo, f <= hi) for one bin
InBand(fnum, lo, hi, n) ==
  /\ fnum >= lo * FsScale * Nperseg(n)
  /\ fnum <= hi * FsScale * Nperseg(n)

BandMask(f, lo, hi, n) == [i \in DOMAIN f |-> InBand(f[i], lo, hi, n)]

\* Boolean-mask indexing a[idx]: the selected elements in their order
Select(a, idx) ==
  LET sel == {i \in DOMAIN a : idx[i]}
  IN  [j \in 1..Cardinality(sel) |->
         a[CHOOSE i \in sel : Cardinality({k \in sel : k < i}) = j - 1]]

RECURSIVE RectRange(_, _, _, _)
RectRange(y, x, lo, hi) ==
  IF lo > hi THEN 0
  ELSE IF lo = hi
       THEN (IF lo < Len(y) THEN x[lo + 1] - x[lo]
             ELSE IF lo > 1 THEN x[lo] - x[lo - 1] ELSE 1) * 2 * y[lo]
  ELSE LET mid == (lo + hi) \div 2
       IN  RectRange(y, x, lo, mid) + RectRange(y, x, mid + 1, hi)

TrapzRect(y, x) == RectRange(y, x, 1, Len(y))

\* sum of diff(x)[i] * (y[i+1] + y[i]) for i in lo..hi
RECURSIVE TrapzRange(_, _, _, _)
TrapzRange(y, x, lo, hi) ==
  IF lo > hi THEN 0
  ELSE IF lo = hi THEN (x[lo + 1] - x[lo]) * (y[lo + 1] + y[lo])
  ELSE LET mid == (lo + hi) \div 2
       IN  TrapzRange(y, x, lo, mid) + TrapzRange(y, x, mid + 1, hi)

\* np.trapz(y, x) = sum(diff(x) * (y[1:] + y[:-1]) / 2), here times 2
\* (and times FsScale * nperseg through the units of x).
Trapz(y, x) == TrapzRange(y, x, 1, Len(y) - 1)

\* Factor between an energy as held here and the energy in 1e-9 units.
EScale(n) == 2 * FsScale * Max(Nperseg(n), 1)

-----------------------------------------------------------------------------
(* Risk score  -- lines 40-48 *)

DenomNoGuard(Energy_I, n) == Energy_I

\* denom = Energy_I if Energy_I > 0 else 1e-9
Denom(Energy_I, n) == IF Energy_I > 0 THEN Energy_I ELSE Epsilon * EScale(n)

\* floor(r * 2^bits / d) for 0 <= r < d, by long division
RECURSIVE FracQ(_, _, _)
FracQ(r, d, bits) ==
  IF bits = 0 THEN 0
  ELSE LET b == IF 2 * r >= d THEN 1 ELSE 0
       IN  b * 2^(bits - 1) + FracQ(2 * r - b * d, d, bits - 1)

RatioSwapped(Energy_E, denom) ==
  IF Energy_E = 0 THEN RatioCap
  ELSE IF denom \div Energy_E >= 64 THEN RatioCap
  ELSE (denom \div Energy_E) * Q + FracQ(denom % Energy_E, Energy_E, 15)

\* ratio = Energy_E / denom in float64 (numpy: x/0 is inf, 0/0 is nan).
\* Quotients of 64 and more are all held as RatioCap: the sigmoid has
\* long saturated there.
Ratio(Energy_E, denom) ==
  IF denom = 0 THEN (IF Energy_E > 0 THEN RatioCap ELSE NaN)
  ELSE IF Energy_E \div denom >= 64 THEN RatioCap
  ELSE (Energy_E \div denom) * Q + FracQ(Energy_E % denom, denom, 15)

SigmoidArgFlipped(ratio) == SigmoidSteep * (ratio - CenterQ)

SigmoidArgCentreOne(ratio) == 0 - SigmoidSteep * (ratio - Q)

\* -2 * (ratio - 0.8)
SigmoidArg(ratio) == 0 - SigmoidSteep * (ratio - CenterQ)

MulQ(a, b) == (a * b) \div Q

\* np.exp(t): t = k*ln2 + r with 0 <= r < ln2, exp(r) by its Taylor
\* polynomial of degree 6, then scaled by 2^k.
Exp(t) ==
  LET k  == t \div Ln2Q
      r  == t % Ln2Q
      h6 == Q + r \div 6
      h5 == Q + MulQ(r, h6) \div 5
      h4 == Q + MulQ(r, h5) \div 4
      h3 == Q + MulQ(r, h4) \div 3
      h2 == Q + MulQ(r, h3) \div 2
      h1 == Q + MulQ(r, h2)
  IN  IF k >= 15 THEN 2^30
      ELSE IF k >= 0 THEN h1 * 2^k
      ELSE IF k <= 0 - 30 THEN 0
      ELSE h1 \div 2^(0 - k)

\* In float64, 1 + x == 1 as soon as x <= 2^-53, that is t <= -53*ln2.
OnePlusIsOne(t) == t <= 0 - 53 * Ln2Q

\* eri_score = 100 / (1 + np.exp(-2 * (ratio - 0.8)))
Sigmoid(ratio) ==
  IF ratio = NaN THEN NaN
  ELSE IF OnePlusIsOne(SigmoidArg(ratio)) THEN ScoreMax * ScoreScale
  ELSE Min(ScoreMax * ScoreScale - 1,
           (ScoreMax * ScoreScale * Q) \div (Q + Exp(SigmoidArg(ratio))))

-----------------------------------------------------------------------------
(* State *)

IdleCall ==
  [pc |-> "idle", signal |-> [len |-> 0, pw |-> <<>>],
   f |-> <<>>, Pxx |-> <<>>, idx_I |-> <<>>, idx_E |-> <<>>,
   Energy_I |-> 0, Energy_E |-> 0, denom |-> 0, ratio |-> 0, eri_score |-> 0,
   status |-> "none", err |-> "", result |-> <<>>]

NoGen ==
  [status |-> "none", err |-> "", duration_sec |-> 0, fs |-> 0,
   sig_healthy |-> 0, sig_seizure |-> 0]

\* lens = VegaNeuroLens(fs): the constructor stores fs unchecked (line 18)
Init ==
  /\ fs \in FsValues
  /\ call = [c \in Calls |-> IdleCall]
  /\ gen = NoGen

-----------------------------------------------------------------------------
(* calculate_eri, one action per statement group *)

\* lens.calculate_eri(signal) is entered with one of the signals sigs
Call(c, sigs) ==
  /\ call[c].pc = "idle"
  /\ \E sig \in sigs : call' = [call EXCEPT ![c].pc = "welch", ![c].signal = sig]
  /\ UNCHANGED <<fs, gen>>

WelchReturnCachesFs(c) ==
  /\ call[c].pc = "welch"
  /\ WelchMayReturn(fs, call[c].signal.len)
  /\ call' = [call EXCEPT ![c].pc = "partition",
                          ![c].f = WelchFreqs(fs, call[c].signal.len),
                          ![c].Pxx = WelchPxx(fs, call[c].signal)]
  /\ fs' = fs \div Max(Nperseg(call[c].signal.len), 1)
  /\ UNCHANGED gen

\* line 26, welch() returns
WelchReturn(c) ==
  /\ call[c].pc = "welch"
  /\ WelchMayReturn(fs, call[c].signal.len)
  /\ call' = [call EXCEPT ![c].pc = "partition",
                          ![c].f = WelchFreqs(fs, call[c].signal.len),
                          ![c].Pxx = WelchPxx(fs, call[c].signal)]
  /\ UNCHANGED <<fs, gen>>

\* line 26, welch() raises; calculate_eri has no handler, the call ends
WelchRaise(c) ==
  /\ call[c].pc = "welch"
  /\ WelchMayRaise(fs, call[c].signal.len)
  /\ call' = [call EXCEPT ![c].pc = "done", ![c].status = "raised",
                          ![c].err = WelchError(fs, call[c].signal.len)]
  /\ UNCHANGED <<fs, gen>>

\* lines 32-36
Partition(c) ==
  /\ call[c].pc = "partition"
  /\ LET n  == call[c].signal.len
         mI == BandMask(call[c].f, BandILow, BandIHigh, n)
         mE == BandMask(call[c].f, BandELow, BandEHigh, n)
     IN  call' = [call EXCEPT
                    ![c].pc = "score",
                    ![c].idx_I = mI,
                    ![c].idx_E = mE,
                    ![c].Energy_I = Trapz(Select(call[c].Pxx, mI), Select(call[c].f, mI)),
                    ![c].Energy_E = Trapz(Select(call[c].Pxx, mE), Select(call[c].f, mE))]
  /\ UNCHANGED <<fs, gen>>

\* lines 40-48
ScoreStep(c) ==
  /\ call[c].pc = "score"
  /\ LET d == Denom(call[c].Energy_I, call[c].signal.len)
         r == Ratio(call[c].Energy_E, d)
     IN  call' = [call EXCEPT ![c].pc = "return",
                              ![c].denom = d,
                              ![c].ratio = r,
                              ![c].eri_score = Sigmoid(r)]
  /\ UNCHANGED <<fs, gen>>

\* line 50
Return(c) ==
  /\ call[c].pc = "return"
  /\ call' = [call EXCEPT
                ![c].pc = "done", ![c].status = "returned",
                ![c].result = <<call[c].eri_score, call[c].Energy_E, call[c].Energy_I>>]
  /\ UNCHANGED <<fs, gen>>

-----------------------------------------------------------------------------
(* generate_signals  -- lines 53-68 *)

IntTrunc(a, b) == IF a >= 0 THEN a \div b ELSE 0 - ((0 - a) \div b)

SampleCountRounded(duration_sec, fsg) ==
  IntTrunc(2 * duration_sec * fsg + DurScale * FsScale, 2 * DurScale * FsScale)

\* int(duration_sec * fs)
SampleCount(duration_sec, fsg) == IntTrunc(duration_sec * fsg, DurScale * FsScale)

\* np.linspace(0, duration_sec, num) raises ValueError for num < 0 and is
\* the only statement that can fail; both signals are sums of arrays of
\* len(t) samples.
GenerateSignals(duration_sec, fsg) ==
  /\ gen.status = "none"
  /\ LET num == SampleCount(duration_sec, fsg)
     IN  gen' = IF num < 0
                THEN [NoGen EXCEPT !.status = "raised", !.err = "ValueError",
                                   !.duration_sec = duration_sec, !.fs = fsg]
                ELSE [status |-> "returned", err |-> "",
                      duration_sec |-> duration_sec, fs |-> fsg,
                      sig_healthy |-> num, sig_seizure |-> num]
  /\ UNCHANGED <<fs, call>>

-----------------------------------------------------------------------------
(* Specifications *)

\* One caller scoring any signal of the catalogue.
Next ==
  \/ Call(1, Signals)
  \/ WelchReturn(1)
  \/ WelchRaise(1)
  \/ Partition(1)
  \/ ScoreStep(1)
  \/ Return(1)

Spec == Init /\ [][Next]_vars

\* Two callers on the same engine, interleaved statement by statement.
NextConc ==
  \E c \in Calls :
    \/ Call(c, ConcSignals)
    \/ WelchReturn(c)
    \/ WelchRaise(c)
    \/ Partition(c)
    \/ ScoreStep(c)
    \/ Return(c)

SpecConc == Init /\ [][NextConc]_vars

\* The generator called once with any duration and rate.
NextGen == \E d \in Durations, g \in FsValues : GenerateSignals(d, g)

SpecGen == Init /\ [][NextGen]_vars

-----------------------------------------------------------------------------
(* Compositions used by the properties *)

\* lines 40-48 as one function of the two band energies
ScoreFrom(Energy_E, Energy_I, n) == Sigmoid(Ratio(Energy_E, Denom(Energy_I, n)))

\* lines 26-50 run without interruption on one signal
Alone(fsC, sig) ==
  LET f0 == WelchFreqs(fsC, sig.len)
      P0 == WelchPxx(fsC, sig)
      mI == BandMask(f0, BandILow, BandIHigh, sig.len)
      mE == BandMask(f0, BandELow, BandEHigh, sig.len)
      EI == Trapz(Select(P0, mI), Select(f0, mI))
      EE == Trapz(Select(P0, mE), Select(f0, mE))
  IN  <<ScoreFrom(EE, EI, sig.len), EE, EI>>

Returned(c) == call[c].pc = "done" /\ call[c].status = "returned"
Scored(c) == call[c].pc = "return" \/ Returned(c)
Partitioned(c) == call[c].pc = "score" \/ Scored(c)
ValidInput(c) == call[c].signal.len > 0 /\ fs > 0

\* Number of bins a mask selects
BinCount(idx) == Cardinality({i \in DOMAIN idx : idx[i]})

\* Twice the trapezoid sum over the pairs of neighbouring bins that both
\* lie in [lo, hi] Hz, taken over the whole PSD of call c.
RECURSIVE PairSum(_, _, _, _, _)
PairSum(c, lo, hi, a, b) ==
  IF a > b THEN 0
  ELSE IF a = b
       THEN LET n   == call[c].signal.len
                in1 == lo * FsScale * Nperseg(n) <= (a - 1) * fs
                       /\ (a - 1) * fs <= hi * FsScale * Nperseg(n)
                in2 == lo * FsScale * Nperseg(n) <= a * fs
                       /\ a * fs <= hi * FsScale * Nperseg(n)
            IN  IF in1 /\ in2 THEN fs * (call[c].Pxx[a] + call[c].Pxx[a + 1]) ELSE 0
  ELSE LET mid == (a + b) \div 2
       IN  PairSum(c, lo, hi, a, mid) + PairSum(c, lo, hi, mid + 1, b)

-----------------------------------------------------------------------------
(* C1 *)

-----------------------------------------------------------------------------
(* C2 *)

\* C2: whenever the signal is empty or fs <= 0 the scoring call ends with an
\* error and returns no score.  Any exception is accepted here as the
\* InvalidInput failure, so only a returned score violates the formula.
C2_InvalidInputRaised ==
  \A c \in Calls :
    (call[c].pc = "done" /\ (call[c].signal.len = 0 \/ fs <= 0)) =>
      (call[c].status = "raised" /\ call[c].result = <<>>)

-----------------------------------------------------------------------------
(* C3 *)

\* C3: whenever duration_sec <= 0 or fs <= 0 generate_signals ends with an
\* error and produces no signals; for positive arguments it does not fail.
\* Any exception is accepted here as the InvalidParameter failure, so only
\* returned signals violate the first part.
C3_InvalidParameterRaised ==
  gen.status # "none" =>
    IF gen.duration_sec <= 0 \/ gen.fs <= 0
    THEN gen.status = "raised"
    ELSE gen.status = "returned"

-----------------------------------------------------------------------------
(* C4 *)

\* C4: the denominator of the ratio is the inhibition energy when that is
\* > 0 and the constant 1e-9 otherwise, hence strictly positive, and a call
\* with zero inhibition energy yields a score that is a number in range
\* (not NaN, not an error).
C4_ZeroGuard ==
  \A c \in Calls :
    Scored(c) =>
      /\ call[c].denom > 0
      /\ call[c].Energy_I > 0 => call[c].denom = call[c].Energy_I
      /\ call[c].Energy_I <= 0 => call[c].denom = Epsilon * EScale(call[c].signal.len)
      /\ call[c].Energy_I = 0 =>
           /\ call[c].eri_score \in 0..(ScoreMax * ScoreScale)
           /\ Returned(c) => call[c].status # "raised"

\* A returned call whose inhibition band holds no energy while the
\* excitation band does: the guard constant was the denominator.
C4_Witness ==
  \E c \in Calls :
    /\ Returned(c) /\ ValidInput(c)
    /\ call[c].Energy_I = 0 /\ call[c].Energy_E > 0
    /\ call[c].denom = Epsilon * EScale(call[c].signal.len)
    /\ call[c].ratio > 0

-----------------------------------------------------------------------------
(* C5 *)

\* C5: for the inhibition energy of any call, fixed, the score does not
\* decrease when the excitation energy grows: from the call's own
\* excitation energy upwards in steps of one stored unit and in steps of
\* one energy unit (1e-9), each score is at least the one before, and the
\* score the call computed is the first of the chain.
C5_Monotone ==
  \A c \in Calls :
    Returned(c) =>
      LET n  == call[c].signal.len
          EI == call[c].Energy_I
          EE == call[c].Energy_E
      IN  /\ call[c].result[1] = ScoreFrom(EE, EI, n)
          /\ \A j \in 0..MonoSpan :
               /\ ScoreFrom(EE + j, EI, n) <= ScoreFrom(EE + j + 1, EI, n)
               /\ ScoreFrom(EE + j * EScale(n), EI, n)
                    <= ScoreFrom(EE + (j + 1) * EScale(n), EI, n)

\* A call with positive inhibition and excitation energy for which one more
\* energy unit of excitation strictly raises the score.
C5_Witness ==
  \E c \in Calls :
    /\ Returned(c)
    /\ call[c].Energy_I > 0 /\ call[c].Energy_E > 0
    /\ ScoreFrom(call[c].Energy_E + EScale(call[c].signal.len),
                 call[c].Energy_I, call[c].signal.len) > call[c].eri_score

-----------------------------------------------------------------------------
(* C6 *)

\* C6: when both band energies are 0 the ratio is exactly 0 and the score is
\* 100/(1+exp(1.6)) = 16.798..., held as 1679, whatever else the signal holds.
C6_BandEmptyScore ==
  \A c \in Calls :
    (Scored(c) /\ call[c].Energy_I = 0 /\ call[c].Energy_E = 0) =>
      (call[c].ratio = 0 /\ call[c].eri_score = 1679)

\* A returned call on a signal that carries power, but with both band
\* energies 0.
C6_Witness ==
  \E c \in Calls :
    /\ Returned(c) /\ ValidInput(c)
    /\ call[c].Energy_I = 0 /\ call[c].Energy_E = 0
    /\ \E i \in DOMAIN call[c].Pxx : call[c].Pxx[i] > 0
    /\ call[c].result[1] = 1679

-----------------------------------------------------------------------------
(* C7 *)

\* C7: the inhibition mask selects exactly the bins with 4 <= f <= 13 and the
\* excitation mask exactly those with 30 <= f <= 80, ends included; no bin is
\* in both; each energy is the trapezoid sum over the neighbouring bins of
\* its own band only; a band without bins has energy 0.
C7_BandSelection ==
  \A c \in Calls :
    Partitioned(c) =>
      LET n  == call[c].signal.len
          np == Nperseg(n)
          nb == Len(call[c].f)
      IN  /\ Len(call[c].idx_I) = nb /\ Len(call[c].idx_E) = nb
          /\ \A i \in 1..nb :
               /\ call[c].idx_I[i] <=>
                    (BandILow * FsScale * np <= (i - 1) * fs
                     /\ (i - 1) * fs <= BandIHigh * FsScale * np)
               /\ call[c].idx_E[i] <=>
                    (BandELow * FsScale * np <= (i - 1) * fs
                     /\ (i - 1) * fs <= BandEHigh * FsScale * np)
               /\ ~(call[c].idx_I[i] /\ call[c].idx_E[i])
          /\ call[c].Energy_I = PairSum(c, BandILow, BandIHigh, 1, nb - 1)
          /\ call[c].Energy_E = PairSum(c, BandELow, BandEHigh, 1, nb - 1)
          /\ BinCount(call[c].idx_I) = 0 => call[c].Energy_I = 0
          /\ BinCount(call[c].idx_E) = 0 => call[c].Energy_E = 0

\* A call whose PSD has a bin exactly at 4 Hz and one exactly at 13 Hz or at
\* 30 Hz, selected and contributing energy, next to bins outside both bands
\* that carry power.
C7_Witness ==
  \E c \in Calls :
    /\ Partitioned(c)
    /\ \E i \in DOMAIN call[c].f :
         /\ call[c].f[i] = BandILow * FsScale * Nperseg(call[c].signal.len)
         /\ call[c].idx_I[i]
         /\ call[c].Pxx[i] > 0
    /\ call[c].Energy_I > 0
    /\ \E i \in DOMAIN call[c].f :
         ~call[c].idx_I[i] /\ ~call[c].idx_E[i] /\ call[c].Pxx[i] > 0

-----------------------------------------------------------------------------
(* C8 *)

\* C8 as stated: for positive duration_sec and fs the two signals have the
\* same length, floor(duration_sec * fs), and that length is at least 1.
C8_LengthAtLeastOne ==
  (gen.status # "none" /\ gen.duration_sec > 0 /\ gen.fs > 0) =>
    /\ gen.status = "returned"
    /\ gen.sig_healthy = gen.sig_seizure
    /\ gen.sig_healthy * DurScale * FsScale <= gen.duration_sec * gen.fs
    /\ gen.duration_sec * gen.fs < (gen.sig_healthy + 1) * DurScale * FsScale
    /\ gen.sig_healthy >= 1

\* C8 amended: for positive duration_sec and fs the two signals have the same
\* length, floor(duration_sec * fs); that length is at least 1 exactly when
\* duration_sec * fs >= 1 and is 0 otherwise.
C8_LengthIsFloor ==
  (gen.status # "none" /\ gen.duration_sec > 0 /\ gen.fs > 0) =>
    /\ gen.status = "returned"
    /\ gen.sig_healthy = gen.sig_seizure
    /\ gen.sig_healthy * DurScale * FsScale <= gen.duration_sec * gen.fs
    /\ gen.duration_sec * gen.fs < (gen.sig_healthy + 1) * DurScale * FsScale
    /\ gen.sig_healthy >= 1 <=> gen.duration_sec * gen.fs >= DurScale * FsScale
    /\ gen.sig_healthy >= 0

\* The generator returned for positive arguments whose product is not a
\* whole number above 1 (the default call: 10 s at 173.61 Hz, 1736 samples).
C8_Witness ==
  /\ gen.status = "returned"
  /\ gen.duration_sec > 0 /\ gen.fs > 0
  /\ gen.sig_healthy > 1
  /\ gen.sig_healthy * DurScale * FsScale < gen.duration_sec * gen.fs

-----------------------------------------------------------------------------
(* C9 *)

\* C9: no step of a scoring call changes the engine's fs or the signal of a
\* call in progress, and under every interleaving of two calls each call
\* returns what the same computation returns when run alone on its signal.
C9_Stateless ==
  /\ [](\A c \in Calls : Returned(c) => call[c].result = Alone(fs, call[c].signal))
  /\ [][/\ fs' = fs
        /\ \A c \in Calls :
             call[c].pc # "idle" => call'[c].signal = call[c].signal]_vars

\* Two calls in flight at once on different signals, both past the score
\* computation and with different scores.
C9_Witness ==
  /\ call[1].pc = "return" /\ call[2].pc = "return"
  /\ call[1].signal # call[2].signal
  /\ call[1].eri_score # call[2].eri_score

-----------------------------------------------------------------------------
(* C10 *)

\* C10: a band holding exactly one PSD bin has energy 0 whatever that bin's
\* power, and when this is the inhibition band the denominator used is the
\* guard constant 1e-9.
C10_SingleBinBand ==
  \A c \in Calls :
    /\ Partitioned(c) =>
         /\ BinCount(call[c].idx_I) = 1 => call[c].Energy_I = 0
         /\ BinCount(call[c].idx_E) = 1 => call[c].Energy_E = 0
    /\ (Scored(c) /\ BinCount(call[c].idx_I) = 1) =>
         call[c].denom = Epsilon * EScale(call[c].signal.len)

\* A returned call whose inhibition band is one bin with positive power.
C10_Witness ==
  \E c \in Calls :
    /\ Returned(c)
    /\ BinCount(call[c].idx_I) = 1
    /\ \E i \in DOMAIN call[c].idx_I : call[c].idx_I[i] /\ call[c].Pxx[i] > 0
    /\ call[c].Energy_I = 0
    /\ call[c].denom = Epsilon * EScale(call[c].signal.len)

====
